---- MODULE Spec2Model ----
(***************************************************************************)
(* The request pipeline and the gadget lifecycle of the IMF gadget API.   *)
(*                                                                         *)
(* A request runs through the Express chain of its route: the JWT gate    *)
(* (verifyJwtToken), the zod validation middleware (validate), the        *)
(* controller, the service, the repository (Prisma) and, on an error, the *)
(* global error handler.  One action models one whole request.            *)
(*                                                                         *)
(* Absent values are modelled as option sets: {} is "no value", {v} is    *)
(* the value v.  A nullable timestamp is {} (null) or {t}.                 *)
(***************************************************************************)
EXTENDS Integers, Sequences, FiniteSets, TLC

VARIABLES
    gadgets,    \* the gadgets table: a function from the ids of the stored rows to the rows
    users,      \* the users table: a function from the ids of the stored rows to the rows
    cookie,     \* the token cookie of the client's browser
    clock,      \* the current time, in days
    last,       \* the exchange in progress: the request, its response and what its
                \* handling did; NoResponse when the client has read the response
    prev,       \* the previous exchange, when it was a successful call on a gadget
    kept,       \* a copy of the token cookie that somebody has taken out of the browser
    pending     \* the requests whose handlers are suspended at an await, by connection

vars == <<gadgets, users, cookie, clock, last, prev, kept, pending>>

----------------------------------------------------------------------------
\* Bounds of the model

\* number of distinct UUIDs the database can hand out
MaxGadgets == 2
\* the clock stops here
MaxTime == 1
\* a request body carries at most this many fields
MaxBodyKeys == 1
\* number of users the database can hold
MaxUsers == 1

----------------------------------------------------------------------------
\* Values

GadgetStatus == {"Available", "Deployed", "Destroyed", "Decommissioned"}

\* HTTP status codes used by the handlers
HTTP_OK == 200
HTTP_CREATED == 201
HTTP_BAD_REQUEST == 400
HTTP_UNAUTHORIZED == 401
HTTP_NOT_FOUND == 404
HTTP_CONFLICT == 409
HTTP_INTERNAL_SERVER_ERROR == 500

\* the maximum length of a gadget name accepted by the schemas
MaxNameLen == 255

\* session tokens expire one day after they are signed
TokenTtlDays == 1

\* the length of a self-destruct confirmation code
ConfirmationCodeLength == 6
MinPasswordLen == 8
CookieMaxAgeMs == 3600000
DayMs == 24 * 60 * 60 * 1000

NULL == {}
Some(v) == {v}
TheValue(opt) == CHOOSE v \in opt : TRUE

Times == 0..MaxTime

\* names a client may send, with their lengths in characters
NameLength ==
    ("Voice Changer" :> 13) @@ ("Grappling Hook" :> 14) @@ ("" :> 0) @@ ("<256 chars>" :> 256)
GoodNames == {"Voice Changer", "Grappling Hook"}
AnyNames == DOMAIN NameLength

\* what generateUniqueNames can return: "The <Adjective> <Animal>"
CodenamePool == {"The Brave Eagle", "The Swift Fox"}

\* path parameters: one string that is no UUID, and the UUIDs
NotAUuid == 0
Uuids == 1..MaxGadgets
ParamIds == {NotAUuid} \cup Uuids
IsUuid(id) == id \in Uuids

----------------------------------------------------------------------------
\* Session tokens and the authentication gate


\* A cookie value: no cookie, a string that is no JWT, or a JWT with its signature
\* (made with the server's secret or not) and the claims of its payload.
NoCookie == [form |-> "none", signed |-> FALSE, id |-> NULL, nbf |-> NULL, exp |-> 0]
MalformedToken == [form |-> "malformed", signed |-> FALSE, id |-> NULL, nbf |-> NULL, exp |-> 0]
Jwt(signed, id, nbf, exp) == [form |-> "jwt", signed |-> signed, id |-> id, nbf |-> nbf, exp |-> exp]

\* jwt.sign({ id: userId }, JWT_SECRET, { expiresIn: '1d' })
generateTokenMutantNoSubject(userId, now) == Jwt(TRUE, NULL, NULL, now + TokenTtlDays)

generateToken(userId, now) == Jwt(TRUE, Some(userId), NULL, now + TokenTtlDays)

\* the cookies a request may carry at time now: none, garbage, a token signed by the
\* server at some earlier time, a token signed with another key, and tokens signed with
\* the server's key by somebody else (without an id, or not valid before some later time)
RequestTokens(now) ==
    {NoCookie, MalformedToken}
        \cup {generateToken(1, t) : t \in (now - TokenTtlDays)..now}
        \cup {Jwt(FALSE, Some(1), NULL, now + TokenTtlDays),
              Jwt(TRUE, NULL, NULL, now + TokenTtlDays),
              Jwt(TRUE, Some(1), Some(now + 1), now + TokenTtlDays + 1)}

\* jwt.verify(token, secret): the decoded payload, or the name of the error thrown
JwtVerifyMutantNoExpiry(token, now) ==
    IF token.form # "jwt" THEN [threw |-> TRUE, name |-> "JsonWebTokenError", id |-> NULL]
    ELSE IF ~token.signed THEN [threw |-> TRUE, name |-> "JsonWebTokenError", id |-> NULL]
    ELSE IF token.nbf # NULL /\ TheValue(token.nbf) > now
        THEN [threw |-> TRUE, name |-> "NotBeforeError", id |-> NULL]
    ELSE [threw |-> FALSE, name |-> "", id |-> token.id]

JwtVerify(token, now) ==
    IF token.form # "jwt" THEN [threw |-> TRUE, name |-> "JsonWebTokenError", id |-> NULL]
    ELSE IF ~token.signed THEN [threw |-> TRUE, name |-> "JsonWebTokenError", id |-> NULL]
    ELSE IF token.nbf # NULL /\ TheValue(token.nbf) > now
        THEN [threw |-> TRUE, name |-> "NotBeforeError", id |-> NULL]
    ELSE IF now >= token.exp THEN [threw |-> TRUE, name |-> "TokenExpiredError", id |-> NULL]
    ELSE [threw |-> FALSE, name |-> "", id |-> token.id]

NoDetails == <<>>
AppError(message, statusCode) ==
    [isAppError |-> TRUE, message |-> message, statusCode |-> statusCode, details |-> NoDetails]
AppErrorWith(message, statusCode, details) ==
    [isAppError |-> TRUE, message |-> message, statusCode |-> statusCode, details |-> details]
NoError == [isAppError |-> FALSE, message |-> "", statusCode |-> 0, details |-> NoDetails]

\* what a middleware hands to next(): nothing (the chain goes on) or an error
Pass(userId) == [pass |-> TRUE, userId |-> userId, err |-> NoError]
Reject(err) == [pass |-> FALSE, userId |-> NULL, err |-> err]

\* the catch block of verifyJwtToken: the status and the message by error.name
GateErrorStatusMutantAll401(name) == HTTP_UNAUTHORIZED

GateErrorStatus(name) ==
    IF name = "JsonWebTokenError" THEN HTTP_UNAUTHORIZED
    ELSE IF name = "TokenExpiredError" THEN HTTP_UNAUTHORIZED
    ELSE HTTP_INTERNAL_SERVER_ERROR

GateErrorMessage(name) ==
    IF name = "JsonWebTokenError" THEN "Authentication failed. Invalid token."
    ELSE IF name = "TokenExpiredError" THEN "Authentication failed. Token has expired."
    ELSE "Authentication failed due to an unexpected server error."

verifyJwtTokenMutantLiveSession(token, now) ==
    IF token.form = "none" \/ token # cookie
    THEN Reject(AppError("No token provided. Please log in", HTTP_UNAUTHORIZED))
    ELSE LET decoded == JwtVerify(token, now) IN
         IF decoded.threw
         THEN Reject(AppError(GateErrorMessage(decoded.name), GateErrorStatus(decoded.name)))
         ELSE IF decoded.id = NULL
         THEN Reject(AppError("Invalid JWT Token structure", HTTP_UNAUTHORIZED))
         ELSE Pass(decoded.id)

verifyJwtToken(token, now) ==
    IF token.form = "none"
    THEN Reject(AppError("No token provided. Please log in", HTTP_UNAUTHORIZED))
    ELSE LET decoded == JwtVerify(token, now) IN
         IF decoded.threw
         THEN Reject(AppError(GateErrorMessage(decoded.name), GateErrorStatus(decoded.name)))
         ELSE IF decoded.id = NULL
         THEN Reject(AppError("Invalid JWT Token structure", HTTP_UNAUTHORIZED))
         ELSE Pass(decoded.id)

----------------------------------------------------------------------------
\* The validation middleware and the zod schemas

Issue(field, message) == [field |-> field, message |-> message]

\* z.string().uuid('Invalid gadget ID format.') on an optional-set value
UuidIssues(id) ==
    IF id = NULL THEN <<Issue("id", "Required")>>
    ELSE IF ~IsUuid(TheValue(id)) THEN <<Issue("id", "Invalid gadget ID format.")>>
    ELSE <<>>

\* gadgetStatusEnum.optional()
StatusIssues(status) ==
    IF status # NULL /\ TheValue(status) \notin GadgetStatus
    THEN <<Issue("status", "Invalid enum value")>>
    ELSE <<>>

createGadgetSchema(body) ==
    IF body.name = NULL THEN <<Issue("name", "Required")>>
    ELSE IF NameLength[TheValue(body.name)] < 1 THEN <<Issue("name", "Gadget name is required")>>
    ELSE IF NameLength[TheValue(body.name)] > MaxNameLen
    THEN <<Issue("name", "Gadget name cannot exceed 255 characters")>>
    ELSE <<>>

getAllGadgetsSchema(query) == StatusIssues(query.status)

updateGadgetSchema(data) ==
    (IF data.name # NULL /\ NameLength[TheValue(data.name)] > MaxNameLen
     THEN <<Issue("name", "Name is too long.")>> ELSE <<>>)
        \o UuidIssues(data.id) \o StatusIssues(data.status)

idParamSchema(params) == UuidIssues(params.id)

\* what schema.parseAsync(req[target]) can throw: a ZodError with its issues, or
\* something else
ZodError(issues) == [zod |-> TRUE, issues |-> issues]
NonZodError == [zod |-> FALSE, issues |-> <<>>]

\* the catch block of validate
validateCatch(error) ==
    IF error.zod THEN AppErrorWith("Validation Failed", HTTP_BAD_REQUEST, error.issues)
    ELSE AppError("An unexpected server error occurred during validation. Please try again later.",
                  HTTP_INTERNAL_SERVER_ERROR)

validateMutantFirstIssueOnly(issues) ==
    IF issues = <<>> THEN Pass(NULL)
    ELSE Reject(AppErrorWith("Validation Failed", HTTP_BAD_REQUEST, <<issues[1]>>))

\* validate(schema, target): the issues of schema.parseAsync(req[target]) decide
validate(issues) ==
    IF issues = <<>> THEN Pass(NULL)
    ELSE Reject(validateCatch(ZodError(issues)))

\* req.params of a route with an :id segment, as the update schema reads it
ParamsOf(id) == [name |-> NULL, id |-> Some(id), status |-> NULL]

----------------------------------------------------------------------------
\* The gadgets table (Prisma)

Row(name, codename, status, decommissionedAt) ==
    [name |-> name, codename |-> codename, status |-> status,
     decommissionedAt |-> decommissionedAt]

\* the data of an update: every column is absent ({}) or given ({v}); extra stands for a
\* key that is no column of the model
Data(name, status, codename, decommissionedAt, extra) ==
    [name |-> name, status |-> status, codename |-> codename,
     decommissionedAt |-> decommissionedAt, extra |-> extra]

Threw(code, store) == [threw |-> TRUE, code |-> code, store |-> store, rows |-> {}]
Returned(store, rows) == [threw |-> FALSE, code |-> "", store |-> store, rows |-> rows]

CodenameTaken(store, codename, except) ==
    \E other \in DOMAIN store \ except : store[other].codename = codename

\* id String @id @default(uuid()): the next unused UUID
NextUuid(store) == Cardinality(DOMAIN store) + 1

\* prisma.gadget.create({ data: { name, codename } }): status and decommissionedAt take
\* their defaults; codename is @unique
PrismaCreateMutantNoUnique(store, name, codename) ==
    Returned(store @@ (NextUuid(store) :> Row(name, codename, "Available", NULL)),
             {Row(name, codename, "Available", NULL)})

PrismaCreateMutantOverwrite(store, name, codename) ==
    IF CodenameTaken(store, codename, {})
    THEN Returned([id \in DOMAIN store |->
                      IF store[id].codename = codename
                      THEN Row(name, codename, "Available", NULL) ELSE store[id]],
                  {Row(name, codename, "Available", NULL)})
    ELSE Returned(store @@ (NextUuid(store) :> Row(name, codename, "Available", NULL)),
                  {Row(name, codename, "Available", NULL)})

PrismaCreate(store, name, codename) ==
    IF CodenameTaken(store, codename, {}) THEN Threw("P2002", store)
    ELSE Returned(store @@ (NextUuid(store) :> Row(name, codename, "Available", NULL)),
                  {Row(name, codename, "Available", NULL)})

\* the row after the given columns are written, the others kept
MergeMutantReplace(row, data) ==
    Row(IF data.name = NULL THEN "" ELSE TheValue(data.name),
        IF data.codename = NULL THEN row.codename ELSE TheValue(data.codename),
        IF data.status = NULL THEN "Available" ELSE TheValue(data.status),
        IF data.decommissionedAt = NULL THEN NULL ELSE TheValue(data.decommissionedAt))

Merge(row, data) ==
    Row(IF data.name = NULL THEN row.name ELSE TheValue(data.name),
        IF data.codename = NULL THEN row.codename ELSE TheValue(data.codename),
        IF data.status = NULL THEN row.status ELSE TheValue(data.status),
        IF data.decommissionedAt = NULL THEN row.decommissionedAt
        ELSE TheValue(data.decommissionedAt))

\* prisma.gadget.update({ where: { id }, data }): the data is checked against the model
\* first; a missing row is an error (P2025), never a null result
PrismaUpdateMutantAllRows(store, id, data) ==
    IF data.extra # NULL \/ (data.status # NULL /\ TheValue(data.status) \notin GadgetStatus)
    THEN Threw("PrismaClientValidationError", store)
    ELSE IF id \notin DOMAIN store THEN Threw("P2025", store)
    ELSE IF data.codename # NULL /\ CodenameTaken(store, TheValue(data.codename), {id})
    THEN Threw("P2002", store)
    ELSE Returned([other \in DOMAIN store |-> Merge(store[other], data)],
                  {Merge(store[id], data)})

PrismaUpdate(store, id, data) ==
    IF data.extra # NULL \/ (data.status # NULL /\ TheValue(data.status) \notin GadgetStatus)
    THEN Threw("PrismaClientValidationError", store)
    ELSE IF id \notin DOMAIN store THEN Threw("P2025", store)
    ELSE IF data.codename # NULL /\ CodenameTaken(store, TheValue(data.codename), {id})
    THEN Threw("P2002", store)
    ELSE Returned([store EXCEPT ![id] = Merge(store[id], data)], {Merge(store[id], data)})

\* prisma.gadget.findUnique({ where: { id } })
PrismaFindUnique(store, id) ==
    Returned(store, IF id \in DOMAIN store THEN {store[id]} ELSE {})

\* prisma.gadget.findMany({ where: status ? { status } : {} })
PrismaFindManyMutantNoFilter(store, status) == DOMAIN store

PrismaFindMany(store, status) ==
    {id \in DOMAIN store : status = NULL \/ store[id].status = TheValue(status)}

NoData == Data(NULL, NULL, NULL, NULL, NULL)

\* GadgetRepository
RepositoryUpdate(store, id, updateData) == PrismaUpdate(store, id, updateData)

RepositoryDecommissionMutantNoStamp(store, id, now) ==
    PrismaUpdate(store, id, Data(NULL, Some("Decommissioned"), NULL, NULL, NULL))

RepositoryDecommission(store, id, now) ==
    PrismaUpdate(store, id, Data(NULL, Some("Decommissioned"), NULL, Some(Some(now)), NULL))

RepositorySelfDestruct(store, id) ==
    PrismaUpdate(store, id, Data(NULL, Some("Destroyed"), NULL, NULL, NULL))

----------------------------------------------------------------------------
\* Helpers of the gadget service

\* samples of the character classes of otp-generator
DigitChars == {"7"}
LowerChars == {"a"}
UpperChars == {"A"}
SpecialChars == {"#"}
AllDigits == {"0", "1", "2", "3", "4", "5", "6", "7", "8", "9"}

\* otpGenerator.generate(length, options): digits are always allowed
OtpGenerate(length, lower, upper, special) ==
    [1..length ->
        DigitChars \cup (IF lower THEN LowerChars ELSE {})
                   \cup (IF upper THEN UpperChars ELSE {})
                   \cup (IF special THEN SpecialChars ELSE {})]

generateConfirmationCodeMutantLetters == OtpGenerate(ConfirmationCodeLength, FALSE, TRUE, FALSE)

generateConfirmationCode == OtpGenerate(ConfirmationCodeLength, FALSE, FALSE, FALSE)

\* generateUniqueNames(): a random "The <Adjective> <Animal>"; nothing keeps two calls apart
generateUniqueNames == CodenamePool

----------------------------------------------------------------------------
\* GadgetService: every method returns a value or throws an AppError

Ok(store, rows, calls) ==
    [ok |-> TRUE, store |-> store, rows |-> rows, err |-> NoError, calls |-> calls]
Fail(store, err, calls) ==
    [ok |-> FALSE, store |-> store, rows |-> {}, err |-> err, calls |-> calls]

createGadget(store, name, codename) ==
    LET r == PrismaCreate(store, name, codename) IN
    IF r.threw
    THEN Fail(store, AppError("An unexpected error occurred while creating the gadget.",
                              HTTP_INTERNAL_SERVER_ERROR), <<"create">>)
    ELSE Ok(r.store, r.rows, <<"create">>)

updateGadgetMutantRejectNoOp(store, id, updates) ==
    LET gadget == PrismaFindUnique(store, id).rows
        r == RepositoryUpdate(store, id, updates) IN
    IF gadget = {}
    THEN Fail(store, AppError("Gadget not found", HTTP_NOT_FOUND), <<"findById">>)
    ELSE IF updates.status = Some(TheValue(gadget).status)
    THEN Fail(store, AppError("No update necessary", HTTP_BAD_REQUEST), <<"findById">>)
    ELSE IF r.threw
    THEN Fail(store, AppError("An unexpected error occurred while updating the gadget.",
                              HTTP_INTERNAL_SERVER_ERROR), <<"findById", "update">>)
    ELSE Ok(r.store, r.rows, <<"findById", "update">>)

updateGadgetMutantKeepDestroyed(store, id, updates) ==
    LET gadget == PrismaFindUnique(store, id).rows
        r == RepositoryUpdate(store, id, updates) IN
    IF gadget # {} /\ TheValue(gadget).status = "Destroyed"
    THEN Fail(store, AppError("Gadget is already destroyed", HTTP_BAD_REQUEST), <<"findById">>)
    ELSE IF r.threw
    THEN Fail(store, AppError("An unexpected error occurred while updating the gadget.",
                              HTTP_INTERNAL_SERVER_ERROR), <<"findById", "update">>)
    ELSE Ok(r.store, r.rows, <<"findById", "update">>)

updateGadget(store, id, updates) ==
    LET r == RepositoryUpdate(store, id, updates) IN
    IF r.threw
    THEN Fail(store, AppError("An unexpected error occurred while updating the gadget.",
                              HTTP_INTERNAL_SERVER_ERROR), <<"update">>)
    ELSE IF r.rows = {}
    THEN Fail(store, AppError("Gadget not found", HTTP_NOT_FOUND), <<"update">>)
    ELSE Ok(r.store, r.rows, <<"update">>)

decommissionGadgetMutantNoRethrow(store, id, now) ==
    LET gadget == PrismaFindUnique(store, id).rows IN
    IF gadget = {} \/ TheValue(gadget).status = "Decommissioned"
    THEN Fail(store, AppError("An unexpected error occurred while decommissioning the gadget.",
                              HTTP_INTERNAL_SERVER_ERROR), <<"findById">>)
    ELSE LET r == RepositoryDecommission(store, id, now) IN
         IF r.threw
         THEN Fail(store, AppError("An unexpected error occurred while decommissioning the gadget.",
                                   HTTP_INTERNAL_SERVER_ERROR), <<"findById", "decommission">>)
         ELSE Ok(r.store, r.rows, <<"findById", "decommission">>)

decommissionGadgetMutantNoCheck(store, id, now) ==
    LET gadget == PrismaFindUnique(store, id).rows IN
    IF gadget = {}
    THEN Fail(store, AppError("Gadget not found", HTTP_NOT_FOUND), <<"findById">>)
    ELSE LET r == RepositoryDecommission(store, id, now) IN
         IF r.threw
         THEN Fail(store, AppError("An unexpected error occurred while decommissioning the gadget.",
                                   HTTP_INTERNAL_SERVER_ERROR), <<"findById", "decommission">>)
         ELSE Ok(r.store, r.rows, <<"findById", "decommission">>)

decommissionGadget(store, id, now) ==
    LET gadget == PrismaFindUnique(store, id).rows IN
    IF gadget = {}
    THEN Fail(store, AppError("Gadget not found", HTTP_NOT_FOUND), <<"findById">>)
    ELSE IF TheValue(gadget).status = "Decommissioned"
    THEN Fail(store, AppError("Gadget is already decommissioned", HTTP_BAD_REQUEST),
              <<"findById">>)
    ELSE LET r == RepositoryDecommission(store, id, now) IN
         IF r.threw
         THEN Fail(store, AppError("An unexpected error occurred while decommissioning the gadget.",
                                   HTTP_INTERNAL_SERVER_ERROR), <<"findById", "decommission">>)
         ELSE Ok(r.store, r.rows, <<"findById", "decommission">>)

\* the destroyed row with the confirmation code added
WithCode(row, confirmationCode) ==
    [name |-> row.name, codename |-> row.codename, status |-> row.status,
     decommissionedAt |-> row.decommissionedAt, confirmationCode |-> confirmationCode]

triggerSelfDestructMutantWriteFirst(store, id, confirmationCode) ==
    LET gadget == PrismaFindUnique(store, id).rows
        r == RepositorySelfDestruct(store, id) IN
    IF gadget = {}
    THEN Fail(store, AppError("Gadget not found", HTTP_NOT_FOUND), <<"findById">>)
    ELSE IF TheValue(gadget).status = "Destroyed"
    THEN Fail(r.store, AppError("Gadget is already destroyed", HTTP_BAD_REQUEST),
              <<"findById", "selfDestruct">>)
    ELSE Ok(r.store, {WithCode(TheValue(r.rows), confirmationCode)},
            <<"findById", "selfDestruct">>)

triggerSelfDestruct(store, id, confirmationCode) ==
    LET gadget == PrismaFindUnique(store, id).rows IN
    IF gadget = {}
    THEN Fail(store, AppError("Gadget not found", HTTP_NOT_FOUND), <<"findById">>)
    ELSE IF TheValue(gadget).status = "Destroyed"
    THEN Fail(store, AppError("Gadget is already destroyed", HTTP_BAD_REQUEST), <<"findById">>)
    ELSE LET r == RepositorySelfDestruct(store, id) IN
         IF r.threw
         THEN Fail(store, AppError("An unexpected error occurred while self destructing the gadget.",
                                   HTTP_INTERNAL_SERVER_ERROR), <<"findById", "selfDestruct">>)
         ELSE Ok(r.store, {WithCode(TheValue(r.rows), confirmationCode)},
                 <<"findById", "selfDestruct">>)

----------------------------------------------------------------------------
\* Routes

GadgetRoutes == {"create", "list", "update", "decommission", "selfDestruct"}
AuthRoutes == {"signup", "signin", "logout"}

\* the middlewares in front of each controller, in the order they are registered:
\* router.use(verifyJwtToken) and validate(...) on the gadgets router; validate(UserSchema)
\* on signup and signin; verifyJwtToken on logout
RouteChainMutantValidateFirst(route) ==
    IF route \in GadgetRoutes THEN <<"validate", "auth">>
    ELSE IF route = "logout" THEN <<"auth">>
    ELSE <<"validate">>

RouteChainMutantOpenLogout(route) ==
    IF route \in GadgetRoutes THEN <<"auth", "validate">>
    ELSE IF route = "logout" THEN <<>>
    ELSE <<"validate">>

RouteChain(route) ==
    IF route \in GadgetRoutes THEN <<"auth", "validate">>
    ELSE IF route = "logout" THEN <<"auth">>
    ELSE <<"validate">>

Range(seq) == {seq[i] : i \in DOMAIN seq}
Gated(route) == "auth" \in Range(RouteChain(route))

\* the stages of a route's chain up to the given one; the controller and its service come
\* last
StagesTo(route, stage) ==
    LET all == RouteChain(route) \o <<"service">>
        at == CHOOSE i \in DOMAIN all : all[i] = stage
    IN SubSeq(all, 1, at)

----------------------------------------------------------------------------
\* Responses

SuccessResponse(status, data, message) ==
    [status |-> status, success |-> TRUE, message |-> message, data |-> data,
     error |-> NULL]

\* what res.json writes of an AppError: its own enumerable properties
AppErrorJson(err) ==
    [name |-> "AppError", statusCode |-> err.statusCode, isOperational |-> TRUE,
     details |-> err.details]

\* an error that is no AppError, with its own enumerable properties
RawError(message, own) ==
    [isAppError |-> FALSE, message |-> message, statusCode |-> 0, details |-> NoDetails,
     own |-> own]

\* the SyntaxError that express.json() passes to next() for a body that is no JSON:
\* body-parser adds expose, statusCode, status, body (the text received) and type to it
JsonSyntaxError(raw) ==
    RawError("Unexpected end of JSON input",
             [expose |-> TRUE, statusCode |-> HTTP_BAD_REQUEST, status |-> HTTP_BAD_REQUEST,
              body |-> raw, type |-> "entity.parse.failed"])

\* globalErrorHandler: res.status(err.statusCode).json(new ErrorResponse(err, err.message))
\* for an AppError, a 500 with a fixed message and new ErrorResponse(err, ...) otherwise
globalErrorHandler(err) ==
    IF err.isAppError
    THEN [status |-> err.statusCode, success |-> FALSE, message |-> err.message,
          data |-> {}, error |-> Some(AppErrorJson(err))]
    ELSE [status |-> HTTP_INTERNAL_SERVER_ERROR, success |-> FALSE,
          message |-> "An unexpected internal server error occurred. Please try again later.",
          data |-> {}, error |-> Some(err.own)]

\* a controller: the service's value in a success response, or next(error)
Controller(result, status, message) ==
    IF result.ok THEN SuccessResponse(status, result.rows, message)
    ELSE globalErrorHandler(result.err)

NoResponse ==
    [route |-> "none", id |-> NotAUuid, token |-> NoCookie, body |-> NoData, before |-> {},
     status |-> 0, success |-> FALSE, message |-> "", data |-> {}, error |-> NULL,
     stages |-> <<>>, calls |-> <<>>, again |-> FALSE, drawn |-> NULL]

NoPrev == [route |-> "none", id |-> NotAUuid]

\* the connections on which requests can be in flight at once
Slots == {"a", "b"}

\* a request in flight: pc is the await its handler is suspended at ("read": the lookup
\* of the service, "write": its write) or "done" when the response is sent; others holds,
\* from then on, where the requests of the other connections were at that moment
InFlight(route, id, body, pc) ==
    [route |-> route, id |-> id, body |-> body, pc |-> pc,
     status |-> 0, success |-> FALSE, message |-> "", sent |-> 0,
     others |-> [o \in Slots |-> "none"]]

NoRequest == InFlight("none", NotAUuid, NoData, "none")

\* the client sends its requests one after the other
Idle == last = NoResponse

\* an answered request: the request (route, :id, cookie, body), the row the request
\* addresses as it was before, the response, the stages of the chain that ran and the
\* repository calls made; again says that the previous request was the same call on the
\* same gadget and succeeded; drawn is the codename the handler has generated, if any
Exchange(route, id, token, body, res, stages, calls) ==
    [route |-> route, id |-> id, token |-> token, body |-> body,
     before |-> IF id \in DOMAIN gadgets THEN {gadgets[id]} ELSE {},
     status |-> res.status, success |-> res.success,
     message |-> res.message, data |-> res.data, error |-> res.error,
     stages |-> stages, calls |-> calls,
     again |-> (prev = [route |-> route, id |-> id]), drawn |-> NULL]

\* the request is answered
Respond(route, id, token, body, res, stages, calls) ==
    /\ last' = Exchange(route, id, token, body, res, stages, calls)
    /\ prev' = NoPrev

\* a request to the gadgets router is answered
RespondGadget(route, id, token, body, res, stages, calls, store) ==
    /\ Respond(route, id, token, body, res, stages, calls)
    /\ gadgets' = store
    /\ UNCHANGED <<users, cookie, clock, kept, pending>>

\* Math.floor(Math.random() * 101), sampled at its ends
PercentSample == {0, 100}

WithProbability(row, percent) ==
    [name |-> row.name, codename |-> row.codename, status |-> row.status,
     decommissionedAt |-> row.decommissionedAt,
     missionSuccessProbability |-> <<row.codename, percent>>]

\* GadgetService.getAllGadgets: the rows found, each with a fresh random probability
getAllGadgets(store, status, percent) ==
    Ok(store, {WithProbability(store[id], percent[id]) : id \in PrismaFindMany(store, status)},
       <<"findAll">>)

----------------------------------------------------------------------------
\* Requests to the gadgets router

Opt(S) == {NULL} \cup {Some(v) : v \in S}

NotAStatus == "Retired"
BodyDates == {NULL, Some(0)}

FieldCount(d) ==
    Cardinality({k \in {"name", "status", "codename", "decommissionedAt", "extra"} :
                    d[k] # NULL})

\* the JSON bodies a PATCH may carry
UpdateBodies ==
    {d \in [name : Opt(GoodNames), status : Opt(GadgetStatus \cup {NotAStatus}),
            codename : Opt(CodenamePool), decommissionedAt : Opt(BodyDates),
            extra : Opt({"x"})] : FieldCount(d) <= MaxBodyKeys}

\* the body (or query) of a request with just a name, or just a status
BodyWithName(name) == Data(name, NULL, NULL, NULL, NULL)
BodyWithStatus(status) == Data(NULL, status, NULL, NULL, NULL)

\* the tokens a request may carry: the browser's cookie, the copy kept of it, or any other
TokensSent == {cookie, kept} \cup RequestTokens(clock)

\* the gate of a route, where its chain has one
Gate(route, token, now) ==
    IF Gated(route) THEN verifyJwtToken(token, now) ELSE Pass(NULL)

Init ==
    /\ gadgets = <<>>
    /\ users = <<>>
    /\ cookie = NoCookie
    /\ clock = 0
    /\ last = NoResponse
    /\ prev = NoPrev
    /\ kept = NoCookie
    /\ pending = [s \in Slots |-> NoRequest]

\* the client reads the response
ReadResponse ==
    /\ ~Idle
    /\ prev' = IF last.success /\ IsUuid(last.id) THEN [route |-> last.route, id |-> last.id]
               ELSE NoPrev
    /\ last' = NoResponse
    /\ UNCHANGED <<gadgets, users, cookie, clock, kept, pending>>

\* the middlewares of a chain run in order from the i-th on, until one rejects
RECURSIVE RunChain(_, _, _, _, _)
RunChain(chain, i, token, issues, now) ==
    IF i > Len(chain) THEN [pass |-> TRUE, err |-> NoError, stage |-> "service"]
    ELSE LET r == IF chain[i] = "auth" THEN verifyJwtToken(token, now) ELSE validate(issues) IN
         IF r.pass THEN RunChain(chain, i + 1, token, issues, now)
         ELSE [pass |-> FALSE, err |-> r.err, stage |-> chain[i]]

\* what the schema of a gadget route finds in a request with an empty body, an empty
\* query and, where the path has an :id, an id that is no UUID
BareRequestIssues(route) ==
    CASE route = "create" -> createGadgetSchema([name |-> NULL])
      [] route = "list" -> getAllGadgetsSchema([status |-> NULL])
      [] route = "update" -> updateGadgetSchema(ParamsOf(NotAUuid))
      [] OTHER -> idParamSchema([id |-> Some(NotAUuid)])

\* router.use(verifyJwtToken): a request to the gadgets router whose token the gate does
\* not accept, here one with an empty body and an id that is no UUID; the first
\* middleware of the chain that rejects it answers, through the error handler
GadgetsRouterGate ==
    /\ Idle
    /\ \E route \in GadgetRoutes, token \in TokensSent :
        LET m == RunChain(RouteChain(route), 1, token, BareRequestIssues(route), clock) IN
        /\ ~Gate(route, token, clock).pass
        /\ ~m.pass
        /\ RespondGadget(route, NotAUuid, token, NoData, globalErrorHandler(m.err),
                         StagesTo(route, m.stage), <<>>, gadgets)

\* POST /api/v1/gadgets
CreateGadgetRequest ==
    /\ Idle
    /\ \E token \in TokensSent, name \in Opt(AnyNames) :
        /\ Gate("create", token, clock).pass
        /\ LET v == validate(createGadgetSchema([name |-> name])) IN
           IF ~v.pass
           THEN RespondGadget("create", NotAUuid, token, BodyWithName(name),
                              globalErrorHandler(v.err), StagesTo("create", "validate"),
                              <<>>, gadgets)
           ELSE \E codename \in generateUniqueNames :
               LET r == createGadget(gadgets, TheValue(name), codename) IN
               /\ r.ok => NextUuid(gadgets) <= MaxGadgets
               /\ last' = [Exchange("create", NotAUuid, token, BodyWithName(name),
                                    Controller(r, HTTP_CREATED, "Gadget created successfully."),
                                    StagesTo("create", "service"), r.calls)
                               EXCEPT !.drawn = Some(codename)]
               /\ prev' = NoPrev
               /\ gadgets' = r.store
               /\ UNCHANGED <<users, cookie, clock, kept, pending>>

\* GET /api/v1/gadgets
GetAllGadgetsRequest ==
    /\ Idle
    /\ \E token \in TokensSent, status \in Opt(GadgetStatus \cup {NotAStatus}) :
        /\ Gate("list", token, clock).pass
        /\ LET v == validate(getAllGadgetsSchema([status |-> status])) IN
           IF ~v.pass
           THEN RespondGadget("list", NotAUuid, token, BodyWithStatus(status),
                              globalErrorHandler(v.err), StagesTo("list", "validate"),
                              <<>>, gadgets)
           ELSE \E percent \in [DOMAIN gadgets -> PercentSample] :
               LET r == getAllGadgets(gadgets, status, percent) IN
               RespondGadget("list", NotAUuid, token, BodyWithStatus(status),
                             Controller(r, HTTP_OK, "Fetched gadgets list successfully"),
                             StagesTo("list", "service"), r.calls, r.store)

\* PATCH /api/v1/gadgets/:id; only req.params is validated, req.body goes to the service
\* as it came
UpdateGadgetRequest ==
    /\ Idle
    /\ \E token \in TokensSent, id \in ParamIds, body \in UpdateBodies :
        /\ Gate("update", token, clock).pass
        /\ LET v == validate(updateGadgetSchema(ParamsOf(id))) IN
           IF ~v.pass
           THEN RespondGadget("update", id, token, body, globalErrorHandler(v.err),
                              StagesTo("update", "validate"), <<>>, gadgets)
           ELSE LET r == updateGadget(gadgets, id, body) IN
                RespondGadget("update", id, token, body,
                              Controller(r, HTTP_OK, "Gadget updated successfully"),
                              StagesTo("update", "service"), r.calls, r.store)

\* DELETE /api/v1/gadgets/:id
DecommissionGadgetRequest ==
    /\ Idle
    /\ \E token \in TokensSent, id \in ParamIds :
        /\ Gate("decommission", token, clock).pass
        /\ LET v == validate(idParamSchema([id |-> Some(id)])) IN
           IF ~v.pass
           THEN RespondGadget("decommission", id, token, NoData, globalErrorHandler(v.err),
                              StagesTo("decommission", "validate"), <<>>, gadgets)
           ELSE LET r == decommissionGadget(gadgets, id, clock) IN
                RespondGadget("decommission", id, token, NoData,
                              Controller(r, HTTP_OK, "Gadget decommissioned successfully."),
                              StagesTo("decommission", "service"), r.calls, r.store)

\* the confirmation code is drawn after the two checks of triggerSelfDestruct have passed
CodesDrawn(store, id) ==
    IF id \in DOMAIN store /\ store[id].status # "Destroyed" THEN generateConfirmationCode
    ELSE {<<>>}

\* POST /api/v1/gadgets/:id/self-destruct
SelfDestructGadgetRequest ==
    /\ Idle
    /\ \E token \in TokensSent, id \in ParamIds :
        /\ Gate("selfDestruct", token, clock).pass
        /\ LET v == validate(idParamSchema([id |-> Some(id)])) IN
           IF ~v.pass
           THEN RespondGadget("selfDestruct", id, token, NoData, globalErrorHandler(v.err),
                              StagesTo("selfDestruct", "validate"), <<>>, gadgets)
           ELSE \E confirmationCode \in CodesDrawn(gadgets, id) :
               LET r == triggerSelfDestruct(gadgets, id, confirmationCode) IN
               RespondGadget("selfDestruct", id, token, NoData,
                             Controller(r, HTTP_OK,
                                        "Gadget self-destruct sequence initiated successfully."),
                             StagesTo("selfDestruct", "service"), r.calls, r.store)

----------------------------------------------------------------------------
\* Users and the auth router

\* emails and passwords a client may send, with the passwords' lengths
Emails == {"ethan@imf.org", "luther@imf.org"}
NotAnEmail == "ethan"
PasswordLength == ("password-1" :> 10) @@ ("password-2" :> 10) @@ ("short" :> 5)
SignUpPasswords == {"password-1", "short"}
Salts == {"salt"}

Credentials(email, password) == [email |-> email, password |-> password]

\* userZodSchema: email is a string in email format, password a string of 8 or more
userZodSchema(body) ==
    (IF body.email = NULL THEN <<Issue("email", "Required")>>
     ELSE IF TheValue(body.email) \notin Emails THEN <<Issue("email", "Invalid email address")>>
     ELSE <<>>)
        \o (IF body.password = NULL THEN <<Issue("password", "Required")>>
            ELSE IF PasswordLength[TheValue(body.password)] < MinPasswordLen
            THEN <<Issue("password", "Password must be at least 8 characters long")>>
            ELSE <<>>)

\* bcrypt: the hash holds the salt drawn and is a one-way image of the password
hashPassword(password, salt) == [salt |-> salt, digest |-> <<salt, password>>]
comparePasswordMutantAlwaysTrue(password, hashed) == TRUE

comparePassword(password, hashed) == hashed.digest = <<hashed.salt, password>>

UserRow(email, password) == [email |-> email, password |-> password]

\* prisma.user.findUnique({ where: { email } })
findByEmail(store, email) == {id \in DOMAIN store : store[id].email = email}

\* prisma.user.create({ data }): id defaults to uuid(); email is @unique
PrismaUserCreate(store, email, password) ==
    IF findByEmail(store, email) # {} THEN Threw("P2002", store)
    ELSE Returned(store @@ (NextUuid(store) :> UserRow(email, password)), {NextUuid(store)})

\* const { password: _, ...userWithoutPassword } = user
userWithoutPasswordMutantWhole(store, id) ==
    [id |-> id, email |-> store[id].email, password |-> store[id].password]

userWithoutPassword(store, id) == [id |-> id, email |-> store[id].email]

\* UserService.signUp
signUpMutantNoLookup(store, userData, salt) ==
    LET created == PrismaUserCreate(store, userData.email,
                                    hashPassword(userData.password, salt)) IN
    IF created.threw
    THEN Fail(store,
              AppError("An unexpected server error occurred during signup. Please try again later.",
                       HTTP_INTERNAL_SERVER_ERROR),
              <<"create">>)
    ELSE Ok(created.store,
            {userWithoutPassword(created.store, id) : id \in created.rows},
            <<"create">>)

signUp(store, userData, salt) ==
    IF findByEmail(store, userData.email) # {}
    THEN Fail(store,
              AppError("User with the email address already exists. Please use a different email or sign in",
                       HTTP_CONFLICT),
              <<"findByEmail">>)
    ELSE LET created == PrismaUserCreate(store, userData.email,
                                         hashPassword(userData.password, salt)) IN
         IF created.threw
         THEN Fail(store,
                   AppError("An unexpected server error occurred during signup. Please try again later.",
                            HTTP_INTERNAL_SERVER_ERROR),
                   <<"findByEmail", "create">>)
         ELSE Ok(created.store,
                 {userWithoutPassword(created.store, id) : id \in created.rows},
                 <<"findByEmail", "create">>)

\* UserService.signIn
signIn(store, userData, now) ==
    LET found == findByEmail(store, userData.email) IN
    IF found = {}
    THEN Fail(store,
              AppError("User with this email address does not exists. Please use a different email or sign up",
                       HTTP_NOT_FOUND),
              <<"findByEmail">>)
    ELSE IF ~comparePassword(userData.password, store[TheValue(found)].password)
    THEN Fail(store, AppError("Invalid Credentials", HTTP_UNAUTHORIZED), <<"findByEmail">>)
    ELSE Ok(store,
            {[user |-> userWithoutPassword(store, TheValue(found)),
              token |-> generateToken(TheValue(found), now)]},
            <<"findByEmail">>)

\* a request to the auth router is answered; jar is the browser's cookie after the
\* response's Set-Cookie headers
RespondAuth(route, token, body, res, stages, calls, store, jar) ==
    /\ Respond(route, NotAUuid, token, body, res, stages, calls)
    /\ users' = store
    /\ cookie' = jar
    /\ UNCHANGED <<gadgets, clock, kept, pending>>

\* POST /api/v1/auth/signup
SignUpRequest ==
    /\ Idle
    /\ \E email \in Opt(Emails \cup {NotAnEmail}), password \in Opt(SignUpPasswords) :
        LET body == Credentials(email, password)
            gate == Gate("signup", cookie, clock)
            v == validate(userZodSchema(body)) IN
        IF ~gate.pass
        THEN RespondAuth("signup", cookie, body, globalErrorHandler(gate.err),
                         StagesTo("signup", "auth"), <<>>, users, cookie)
        ELSE IF ~v.pass
        THEN RespondAuth("signup", cookie, body, globalErrorHandler(v.err),
                         StagesTo("signup", "validate"), <<>>, users, cookie)
        ELSE \E salt \in Salts :
            LET r == signUp(users, Credentials(TheValue(email), TheValue(password)), salt) IN
            /\ r.ok => NextUuid(users) <= MaxUsers
            /\ RespondAuth("signup", cookie, body,
                           Controller(r, HTTP_CREATED, "User successfully registered"),
                           StagesTo("signup", "service"), r.calls, r.store, cookie)

\* POST /api/v1/auth/signin: on success res.cookie('token', token, ...)
SignInRequest ==
    /\ Idle
    /\ \E email \in Opt(Emails \cup {NotAnEmail}), password \in Opt(DOMAIN PasswordLength) :
        LET body == Credentials(email, password)
            gate == Gate("signin", cookie, clock)
            v == validate(userZodSchema(body)) IN
        IF ~gate.pass
        THEN RespondAuth("signin", cookie, body, globalErrorHandler(gate.err),
                         StagesTo("signin", "auth"), <<>>, users, cookie)
        ELSE IF ~v.pass
        THEN RespondAuth("signin", cookie, body, globalErrorHandler(v.err),
                         StagesTo("signin", "validate"), <<>>, users, cookie)
        ELSE LET r == signIn(users, Credentials(TheValue(email), TheValue(password)), clock) IN
             RespondAuth("signin", cookie, body,
                         Controller(r, HTTP_OK, "User successfully logged in"),
                         StagesTo("signin", "service"), r.calls, r.store,
                         IF r.ok THEN TheValue(r.rows).token ELSE cookie)

\* GET /api/v1/auth/logout: res.clearCookie('token'), no service behind it
SignOutRequest ==
    /\ Idle
    /\ \E token \in TokensSent :
        LET gate == Gate("logout", token, clock) IN
        IF ~gate.pass
        THEN RespondAuth("logout", token, NoData, globalErrorHandler(gate.err),
                         StagesTo("logout", "auth"), <<>>, users, cookie)
        ELSE RespondAuth("logout", token, NoData,
                         SuccessResponse(HTTP_OK, {}, "User successfully logged out."),
                         StagesTo("logout", "service"), <<>>, users, NoCookie)

\* texts a client may send as a JSON body that are no JSON
MalformedBodies == {"{\"email\": \"ethan@imf.org\", \"password\": \"password-1\""}

\* app.use(express.json()): a POST or PATCH whose body is no JSON never reaches its
\* router; the parser's SyntaxError goes to the global error handler
MalformedJsonRequest ==
    /\ Idle
    /\ \E route \in {"create", "update", "signup", "signin"}, raw \in MalformedBodies :
        RespondAuth(route, cookie, NoData, globalErrorHandler(JsonSyntaxError(raw)),
                    <<"json">>, <<>>, users, cookie)

\* a day passes; the cookie, set with maxAge 3600000 ms, is dropped by the browser
Tick ==
    /\ Idle
    /\ clock < MaxTime
    /\ clock' = clock + 1
    /\ cookie' = IF CookieMaxAgeMs < DayMs THEN NoCookie ELSE cookie
    /\ UNCHANGED <<gadgets, users, last, prev, kept, pending>>

\* somebody copies the token cookie out of the browser and keeps it
KeepToken ==
    /\ Idle
    /\ cookie # NoCookie
    /\ kept = NoCookie
    /\ kept' = cookie
    /\ UNCHANGED <<gadgets, users, cookie, clock, last, prev, pending>>

Next ==
    \/ GadgetsRouterGate
    \/ CreateGadgetRequest
    \/ GetAllGadgetsRequest
    \/ UpdateGadgetRequest
    \/ DecommissionGadgetRequest
    \/ SelfDestructGadgetRequest
    \/ ReadResponse

\* the gadgets router, at one instant: the clock stands still
Spec == Init /\ [][Next]_vars

\* the whole API, at one instant
NextApi ==
    \/ Next
    \/ SignUpRequest
    \/ SignInRequest
    \/ SignOutRequest

SpecApi == Init /\ [][NextApi]_vars

\* the auth router and the browser's cookie, over time
NextAuth ==
    \/ SignUpRequest
    \/ SignInRequest
    \/ SignOutRequest
    \/ ReadResponse
    \/ Tick

SpecAuth == Init /\ [][NextAuth]_vars

\* the auth router behind the body parser of the app
NextApp ==
    \/ NextAuth
    \/ MalformedJsonRequest

SpecApp == Init /\ [][NextApp]_vars

\* sessions over time: the auth router, the gate of the gadgets router in front of the
\* list, and a copy of the session token kept outside the browser
NextSession ==
    \/ NextAuth
    \/ KeepToken
    \/ GadgetsRouterGate
    \/ GetAllGadgetsRequest

SpecSession == Init /\ [][NextSession]_vars

----------------------------------------------------------------------------
\* Concurrent requests: every handler runs to its next await, where the handlers of
\* other requests can run; a repository call is one statement of the database

\* the PATCH bodies sent concurrently: a name or a status of the enumeration, or nothing
RaceBodies ==
    {d \in UpdateBodies : d.extra = NULL /\ d.codename = NULL /\ d.decommissionedAt = NULL
                              /\ d.status # Some(NotAStatus)}

\* GadgetService.decommissionGadget up to its write: the checks on what findById returned
decommissionGadgetGuard(gadget) ==
    IF gadget = {} THEN AppError("Gadget not found", HTTP_NOT_FOUND)
    ELSE IF TheValue(gadget).status = "Decommissioned"
    THEN AppError("Gadget is already decommissioned", HTTP_BAD_REQUEST)
    ELSE NoError

\* GadgetService.decommissionGadget from its write on
decommissionGadgetWrite(store, id, now) ==
    LET r == RepositoryDecommission(store, id, now) IN
    IF r.threw
    THEN Fail(store, AppError("An unexpected error occurred while decommissioning the gadget.",
                              HTTP_INTERNAL_SERVER_ERROR), <<"decommission">>)
    ELSE Ok(r.store, r.rows, <<"decommission">>)

\* GadgetService.triggerSelfDestruct up to its write
triggerSelfDestructGuard(gadget) ==
    IF gadget = {} THEN AppError("Gadget not found", HTTP_NOT_FOUND)
    ELSE IF TheValue(gadget).status = "Destroyed"
    THEN AppError("Gadget is already destroyed", HTTP_BAD_REQUEST)
    ELSE NoError

\* GadgetService.triggerSelfDestruct from its write on
triggerSelfDestructWrite(store, id, confirmationCode) ==
    LET r == RepositorySelfDestruct(store, id) IN
    IF r.threw
    THEN Fail(store, AppError("An unexpected error occurred while self destructing the gadget.",
                              HTTP_INTERNAL_SERVER_ERROR), <<"selfDestruct">>)
    ELSE Ok(r.store, {WithCode(TheValue(r.rows), confirmationCode)}, <<"selfDestruct">>)

\* UserService.signUp up to the hashing of the password: the check on what findByEmail
\* returned
signUpGuard(existingUser) ==
    IF existingUser # {}
    THEN AppError("User with the email address already exists. Please use a different email or sign in",
                  HTTP_CONFLICT)
    ELSE NoError

\* UserService.signUp from its write on
signUpWrite(store, userData, salt) ==
    LET created == PrismaUserCreate(store, userData.email,
                                    hashPassword(userData.password, salt)) IN
    IF created.threw
    THEN Fail(store,
              AppError("An unexpected server error occurred during signup. Please try again later.",
                       HTTP_INTERNAL_SERVER_ERROR),
              <<"create">>)
    ELSE Ok(created.store,
            {userWithoutPassword(created.store, id) : id \in created.rows},
            <<"create">>)

\* the request of connection s is answered
Completed(s, res) ==
    [pending[s] EXCEPT !.pc = "done", !.status = res.status, !.success = res.success,
                       !.message = res.message,
                       !.others = [o \in Slots |-> IF o = s THEN "none" ELSE pending[o].pc]]

\* the emails of the stored users and of the signups in flight
EmailsInUse ==
    {users[id].email : id \in DOMAIN users}
        \cup {pending[s].body.email : s \in {o \in Slots : pending[o].route = "signup"}}

\* one stored gadget, as a create leaves it, and no user
InitRace ==
    /\ gadgets = (1 :> Row("Voice Changer", "The Brave Eagle", "Available", NULL))
    /\ users = <<>>
    /\ cookie = NoCookie
    /\ clock = 0
    /\ last = NoResponse
    /\ prev = NoPrev
    /\ kept = NoCookie
    /\ pending = [s \in Slots |-> NoRequest]

\* a PATCH, a DELETE or a self-destruct POST that the gate and the validation let
\* through reaches its service, which awaits its first repository call
GadgetRequestArrives ==
    \E s \in Slots, route \in {"update", "decommission", "selfDestruct"}, id \in Uuids :
        /\ pending[s] = NoRequest
        /\ \E token \in TokensSent : Gate(route, token, clock).pass
        /\ validate(IF route = "update" THEN updateGadgetSchema(ParamsOf(id))
                    ELSE idParamSchema([id |-> Some(id)])).pass
        /\ \E body \in (IF route = "update" THEN RaceBodies ELSE {NoData}) :
              pending' = [pending EXCEPT ![s] =
                             InFlight(route, id, body,
                                      IF route = "update" THEN "write" ELSE "read")]
        /\ UNCHANGED <<gadgets, users, cookie, clock, last, prev, kept>>

\* a signup that the validation lets through reaches UserService.signUp, which awaits
\* findByEmail
SignUpRequestArrives ==
    \E s \in Slots, email \in Emails, password \in SignUpPasswords :
        /\ pending[s] = NoRequest
        /\ validate(userZodSchema(Credentials(Some(email), Some(password)))).pass
        /\ Cardinality(EmailsInUse \cup {email}) <= MaxUsers
        /\ pending' = [pending EXCEPT ![s] =
                          InFlight("signup", NotAUuid, Credentials(email, password), "read")]
        /\ UNCHANGED <<gadgets, users, cookie, clock, last, prev, kept>>

\* findById, or findByEmail, returns and the service checks what it returned: it throws
\* its operational error, which the controller hands to the error handler, or goes on to
\* its write
RepositoryRead ==
    \E s \in Slots :
        LET req == pending[s]
            err == CASE req.route = "decommission"
                          -> decommissionGadgetGuard(PrismaFindUnique(gadgets, req.id).rows)
                     [] req.route = "selfDestruct"
                          -> triggerSelfDestructGuard(PrismaFindUnique(gadgets, req.id).rows)
                     [] OTHER -> signUpGuard(findByEmail(users, req.body.email))
        IN
        /\ req.pc = "read"
        /\ pending' = [pending EXCEPT ![s] =
                          IF err = NoError THEN [req EXCEPT !.pc = "write"]
                          ELSE Completed(s, globalErrorHandler(err))]
        /\ UNCHANGED <<gadgets, users, cookie, clock, last, prev, kept>>

\* the write of the service runs in the database and the controller answers
RepositoryWrite ==
    \E s \in Slots, salt \in Salts, confirmationCode \in generateConfirmationCode :
        LET req == pending[s]
            r == CASE req.route = "update" -> updateGadget(gadgets, req.id, req.body)
                   [] req.route = "decommission"
                        -> decommissionGadgetWrite(gadgets, req.id, clock)
                   [] req.route = "selfDestruct"
                        -> triggerSelfDestructWrite(gadgets, req.id, confirmationCode)
                   [] OTHER -> signUpWrite(users, req.body, salt)
            res == CASE req.route = "update"
                        -> Controller(r, HTTP_OK, "Gadget updated successfully")
                     [] req.route = "decommission"
                        -> Controller(r, HTTP_OK, "Gadget decommissioned successfully.")
                     [] req.route = "selfDestruct"
                        -> Controller(r, HTTP_OK,
                                      "Gadget self-destruct sequence initiated successfully.")
                     [] OTHER -> Controller(r, HTTP_CREATED, "User successfully registered")
        IN
        /\ req.pc = "write"
        /\ gadgets' = IF req.route = "signup" THEN gadgets ELSE r.store
        /\ users' = IF req.route = "signup" THEN r.store ELSE users
        /\ pending' = [pending EXCEPT ![s] = Completed(s, res)]
        /\ UNCHANGED <<cookie, clock, last, prev, kept>>

\* the client of a connection reads its response; the connection is free again
ResponseRead ==
    \E s \in Slots :
        /\ pending[s].pc = "done"
        /\ pending' = [o \in Slots |->
                          IF o = s THEN NoRequest
                          ELSE [pending[o] EXCEPT !.others[s] = "none"]]
        /\ UNCHANGED <<gadgets, users, cookie, clock, last, prev, kept>>

NextRace ==
    \/ GadgetRequestArrives
    \/ SignUpRequestArrives
    \/ RepositoryRead
    \/ RepositoryWrite
    \/ ResponseRead

\* requests on two connections at once, at one instant
SpecRace == InitRace /\ [][NextRace]_vars

----------------------------------------------------------------------------
\* One request, stage by stage: each middleware of the chain of its route, its
\* controller and the error handler run as separate tasks of the event loop

\* a request in its chain: at is the middleware of the chain that runs next, pc the kind
\* of stage that runs next ("chain", "controller", "errorHandler") or "done"; err is the
\* error handed to next() and sent counts the responses written
Staged(route, id, token, body) ==
    [route |-> route, id |-> id, token |-> token, body |-> body, pc |-> "chain", at |-> 1,
     err |-> NoError, sent |-> 0, status |-> 0, success |-> FALSE, message |-> ""]

\* the connection the requests come on, one after the other
Connection == CHOOSE s \in Slots : TRUE

\* the path ids sent: one that is no UUID and the first UUID
StagedIds == {NotAUuid, 1}

\* the cookies sent: none, one that is no JWT, the browser's, and tokens signed by the
\* server: a session token, one without an id and one that is not valid yet
StagedTokens ==
    {NoCookie, MalformedToken, cookie, generateToken(1, clock),
     Jwt(TRUE, NULL, NULL, clock + TokenTtlDays),
     Jwt(TRUE, Some(1), Some(clock + 1), clock + TokenTtlDays + 1)}

\* the requests sent: per route, a few bodies (or queries) of each kind; signup and
\* signin, which no gate reads the cookie of, come with the browser's cookie
StagedRequests(route) ==
    CASE route = "create"
            -> {Staged(route, NotAUuid, token, BodyWithName(name)) :
                    token \in StagedTokens, name \in Opt({"Voice Changer"})}
      [] route = "list"
            -> {Staged(route, NotAUuid, token, BodyWithStatus(status)) :
                    token \in StagedTokens, status \in Opt({NotAStatus})}
      [] route = "update"
            -> {Staged(route, id, token, BodyWithStatus(status)) :
                    token \in StagedTokens, id \in StagedIds,
                    status \in Opt({"Deployed", NotAStatus})}
      [] route \in {"decommission", "selfDestruct"}
            -> {Staged(route, id, token, NoData) : token \in StagedTokens, id \in StagedIds}
      [] route \in {"signup", "signin"}
            -> {Staged(route, NotAUuid, cookie, Credentials(email, password)) :
                    email \in Opt({"ethan@imf.org"}), password \in Opt({"password-1"})}
      [] OTHER -> {Staged(route, NotAUuid, token, NoData) : token \in StagedTokens}

\* what the schema of the route finds in the region of the request that it validates
IssuesOf(req) ==
    CASE req.route = "create" -> createGadgetSchema([name |-> req.body.name])
      [] req.route = "list" -> getAllGadgetsSchema([status |-> req.body.status])
      [] req.route = "update" -> updateGadgetSchema(ParamsOf(req.id))
      [] req.route \in {"decommission", "selfDestruct"} -> idParamSchema([id |-> Some(req.id)])
      [] req.route \in {"signup", "signin"} -> userZodSchema(req.body)
      [] OTHER -> <<>>

\* what the service called by the controller of the route can return or throw
ServiceResults(req) ==
    CASE req.route = "create"
            -> {createGadget(gadgets, TheValue(req.body.name), codename) :
                    codename \in generateUniqueNames}
      [] req.route = "list"
            -> {getAllGadgets(gadgets, req.body.status, percent) :
                    percent \in [DOMAIN gadgets -> PercentSample]}
      [] req.route = "update" -> {updateGadget(gadgets, req.id, req.body)}
      [] req.route = "decommission" -> {decommissionGadget(gadgets, req.id, clock)}
      [] req.route = "selfDestruct"
            -> {triggerSelfDestruct(gadgets, req.id, confirmationCode) :
                    confirmationCode \in CodesDrawn(gadgets, req.id)}
      [] req.route = "signup"
            -> {signUp(users, Credentials(TheValue(req.body.email),
                                          TheValue(req.body.password)), salt) :
                    salt \in Salts}
      [] req.route = "signin"
            -> {signIn(users, Credentials(TheValue(req.body.email),
                                          TheValue(req.body.password)), clock)}
      [] OTHER -> {Ok(users, {}, <<>>)}

\* the success response of the controller of each route
SuccessOf(route, r) ==
    CASE route = "create" -> SuccessResponse(HTTP_CREATED, r.rows, "Gadget created successfully.")
      [] route = "list" -> SuccessResponse(HTTP_OK, r.rows, "Fetched gadgets list successfully")
      [] route = "update" -> SuccessResponse(HTTP_OK, r.rows, "Gadget updated successfully")
      [] route = "decommission"
            -> SuccessResponse(HTTP_OK, r.rows, "Gadget decommissioned successfully.")
      [] route = "selfDestruct"
            -> SuccessResponse(HTTP_OK, r.rows,
                               "Gadget self-destruct sequence initiated successfully.")
      [] route = "signup" -> SuccessResponse(HTTP_CREATED, r.rows, "User successfully registered")
      [] route = "signin" -> SuccessResponse(HTTP_OK, r.rows, "User successfully logged in")
      [] OTHER -> SuccessResponse(HTTP_OK, {}, "User successfully logged out.")

\* the tables hold no more rows than the model allows after the request
WithinBounds(req) ==
    (req.route \in {"create", "signup"} /\ validate(IssuesOf(req)).pass)
        => \A r \in ServiceResults(req) :
              r.ok => IF req.route = "create" THEN NextUuid(gadgets) <= MaxGadgets
                      ELSE NextUuid(users) <= MaxUsers

\* a middleware has run with outcome r: next() passes the request to the next middleware
\* of the chain, or to the controller after the last; next(error) passes it to the error
\* handler
AfterMiddlewareMutantNoNext(req, r) ==
    IF r.pass THEN [req EXCEPT !.pc = "returned"]
    ELSE [req EXCEPT !.pc = "errorHandler", !.err = r.err]

AfterMiddleware(req, r) ==
    IF r.pass
    THEN IF req.at = Len(RouteChain(req.route)) THEN [req EXCEPT !.pc = "controller"]
         ELSE [req EXCEPT !.at = @ + 1]
    ELSE [req EXCEPT !.pc = "errorHandler", !.err = r.err]

\* res.status(...).json(...): one more response is written and the request is over
Sent(req, res) ==
    [req EXCEPT !.pc = "done", !.sent = @ + 1, !.status = res.status,
                !.success = res.success, !.message = res.message]

\* a request enters the chain of its route
RequestReceived ==
    \E route \in GadgetRoutes \cup AuthRoutes :
        \E req \in StagedRequests(route) :
            /\ \A o \in Slots : pending[o] = NoRequest
            /\ WithinBounds(req)
            /\ pending' = [pending EXCEPT ![Connection] = req]
            /\ UNCHANGED <<gadgets, users, cookie, clock, last, prev, kept>>

\* verifyJwtToken or validate(...) runs and calls next
MiddlewareRuns ==
    LET req == pending[Connection]
        r == IF RouteChain(req.route)[req.at] = "auth" THEN verifyJwtToken(req.token, clock)
             ELSE validate(IssuesOf(req)) IN
    /\ req.pc = "chain"
    /\ pending' = [pending EXCEPT ![Connection] = AfterMiddleware(req, r)]
    /\ UNCHANGED <<gadgets, users, cookie, clock, last, prev, kept>>

\* the controller awaits its service and writes the success response, or catches what
\* the service threw and calls next(error)
ControllerRuns ==
    /\ pending[Connection].pc = "controller"
    /\ \E r \in ServiceResults(pending[Connection]) :
        LET req == pending[Connection] IN
        /\ pending' = [pending EXCEPT ![Connection] =
                          IF r.ok THEN Sent(req, SuccessOf(req.route, r))
                          ELSE [req EXCEPT !.pc = "errorHandler", !.err = r.err]]
        /\ gadgets' = IF req.route \in GadgetRoutes THEN r.store ELSE gadgets
        /\ users' = IF req.route \in {"signup", "signin"} THEN r.store ELSE users
        /\ cookie' = IF req.route = "signin" /\ r.ok THEN TheValue(r.rows).token
                     ELSE IF req.route = "logout" THEN NoCookie
                     ELSE cookie
        /\ UNCHANGED <<clock, last, prev, kept>>

\* globalErrorHandler writes the error response
ErrorHandlerRuns ==
    /\ pending[Connection].pc = "errorHandler"
    /\ pending' = [pending EXCEPT ![Connection] =
                      Sent(pending[Connection], globalErrorHandler(pending[Connection].err))]
    /\ UNCHANGED <<gadgets, users, cookie, clock, last, prev, kept>>

\* the client reads the response
ResponseDelivered ==
    /\ pending[Connection].pc = "done"
    /\ pending' = [pending EXCEPT ![Connection] = NoRequest]
    /\ UNCHANGED <<gadgets, users, cookie, clock, last, prev, kept>>

NextPipeline ==
    \/ RequestReceived
    \/ MiddlewareRuns
    \/ ControllerRuns
    \/ ErrorHandlerRuns
    \/ ResponseDelivered

\* the event loop runs every task that is ready: a middleware, a controller whose
\* service has returned or thrown, the error handler
SpecPipeline ==
    /\ Init
    /\ [][NextPipeline]_vars
    /\ WF_vars(MiddlewareRuns)
    /\ WF_vars(ControllerRuns)
    /\ WF_vars(ErrorHandlerRuns)

----------------------------------------------------------------------------
\* Properties

\* the request that last holds reached its controller
Served(l) == l # NoResponse /\ "service" \in Range(l.stages)

\* the repository calls that write
Writes(calls) == SelectSeq(calls, LAMBDA c : c \in {"create", "update", "decommission", "selfDestruct"})

StampedIffDecommissioned(row) ==
    (row.decommissionedAt # NULL) <=> (row.status = "Decommissioned")

\* C1 (as stated): in every reachable state each stored gadget has a non-null
\* decommissionedAt if and only if its status is Decommissioned.
C1_StampedIffDecommissionedAlways ==
    \A id \in DOMAIN gadgets : StampedIffDecommissioned(gadgets[id])

\* C1 (amended): a create or a decommission request leaves every gadget it writes with a
\* non-null decommissionedAt if and only if its status is Decommissioned, and every other
\* gadget as it was; update and selfDestruct write the status without the timestamp, so
\* the equivalence is no invariant of the store.
C1_CreateAndDecommissionStamp ==
    [][(last' # NoResponse /\ last'.route \in {"create", "decommission"})
        => \A id \in DOMAIN gadgets' :
              \/ id \in DOMAIN gadgets /\ gadgets'[id] = gadgets[id]
              \/ StampedIffDecommissioned(gadgets'[id])]_vars

C1_Witness ==
    /\ last.route = "decommission"
    /\ last.success
    /\ gadgets[last.id].status = "Decommissioned"
    /\ gadgets[last.id].decommissionedAt # NULL

\* C2: decommission of a stored gadget that is not Decommissioned answers 200 and sets the
\* status to Decommissioned and decommissionedAt to a non-null value in one repository
\* write; the same call repeated next on the same gadget answers 400 and writes nothing.
C2_DecommissionTwice ==
    [][(last' # NoResponse /\ last'.route = "decommission" /\ last'.id \in DOMAIN gadgets)
        => /\ gadgets[last'.id].status # "Decommissioned"
               => /\ last'.status = HTTP_OK
                  /\ gadgets'[last'.id].status = "Decommissioned"
                  /\ gadgets'[last'.id].decommissionedAt # NULL
                  /\ Writes(last'.calls) = <<"decommission">>
                  /\ \A id \in DOMAIN gadgets \ {last'.id} : gadgets'[id] = gadgets[id]
           /\ last'.again
               => /\ last'.status = HTTP_BAD_REQUEST
                  /\ last'.message = "Gadget is already decommissioned"
                  /\ Writes(last'.calls) = <<>>
                  /\ gadgets' = gadgets]_vars

C2_Witness ==
    /\ last.route = "decommission"
    /\ last.again
    /\ last.status = HTTP_BAD_REQUEST
    /\ TheValue(last.before).decommissionedAt # NULL

\* C3: selfDestruct of a stored gadget that is not Destroyed answers 200, sets the stored
\* status to Destroyed and returns the updated row with a confirmation code of exactly 6
\* characters, all digits; the same call repeated next on the same gadget answers 400.
C3_SelfDestructTwice ==
    [][(last' # NoResponse /\ last'.route = "selfDestruct" /\ last'.id \in DOMAIN gadgets)
        => /\ gadgets[last'.id].status # "Destroyed"
               => /\ last'.status = HTTP_OK
                  /\ gadgets'[last'.id].status = "Destroyed"
                  /\ Cardinality(last'.data) = 1
                  /\ LET code == TheValue(last'.data).confirmationCode IN
                        /\ last'.data = {WithCode(gadgets'[last'.id], code)}
                        /\ Len(code) = ConfirmationCodeLength
                        /\ \A i \in 1..Len(code) : code[i] \in AllDigits
           /\ last'.again
               => /\ last'.status = HTTP_BAD_REQUEST
                  /\ last'.message = "Gadget is already destroyed"
                  /\ gadgets' = gadgets]_vars

C3_Witness ==
    /\ last.route = "selfDestruct"
    /\ last.again
    /\ last.status = HTTP_BAD_REQUEST
    /\ TheValue(last.before).status = "Destroyed"

\* the PATCH asks for the status the gadget already has
NoOpStatusUpdate(l, store) ==
    /\ l # NoResponse
    /\ l.route = "update"
    /\ l.id \in DOMAIN store
    /\ l.body.status = Some(store[l.id].status)

C5_UpdateUnknownIdNotFound ==
    [][(last' # NoResponse /\ last'.route = "update" /\ IsUuid(last'.id)
            /\ last'.id \notin DOMAIN gadgets)
        => last'.status = HTTP_NOT_FOUND /\ gadgets' = gadgets]_vars

\* C6: the codename of a stored gadget is the same in every later state, whatever
\* requests are made.
C6_CodenameNeverChanges ==
    [][\A id \in DOMAIN gadgets :
          id \in DOMAIN gadgets' /\ gadgets'[id].codename = gadgets[id].codename]_vars

\* C7: every successful create stores one new gadget and returns it: with the name asked
\* for, status Available, a null decommissionedAt and a non-empty codename that no other
\* stored gadget has.
C7_CreatedGadget ==
    [][(last' # NoResponse /\ last'.route = "create" /\ last'.success)
        => \E id \in DOMAIN gadgets' \ DOMAIN gadgets :
              /\ DOMAIN gadgets' = DOMAIN gadgets \cup {id}
              /\ \A other \in DOMAIN gadgets :
                    /\ gadgets'[other] = gadgets[other]
                    /\ gadgets'[other].codename # gadgets'[id].codename
              /\ last'.status = HTTP_CREATED
              /\ last'.data = {gadgets'[id]}
              /\ gadgets'[id].name = TheValue(last'.body.name)
              /\ gadgets'[id].status = "Available"
              /\ gadgets'[id].decommissionedAt = NULL
              /\ gadgets'[id].codename # ""]_vars

C7_Witness ==
    /\ last.route = "create"
    /\ last.success
    /\ Cardinality(DOMAIN gadgets) = MaxGadgets
    /\ \A a, b \in DOMAIN gadgets : a # b => gadgets[a].codename # gadgets[b].codename

\* the tokens C8 names: none, malformed, signed with another key, expired
NoneMalformedForgedOrExpired(token, now) ==
    \/ token.form \in {"none", "malformed"}
    \/ token.form = "jwt" /\ ~token.signed
    \/ token.form = "jwt" /\ token.signed /\ token.nbf = NULL /\ token.exp <= now

\* C8: a request to a gadget route with no token, or with a token that is malformed,
\* wrongly signed or expired, is answered 401, makes no repository call and leaves the
\* store as it was.
C8_GadgetRoutesGated ==
    [][(last' # NoResponse /\ last'.route \in GadgetRoutes
            /\ NoneMalformedForgedOrExpired(last'.token, clock))
        => /\ last'.status = HTTP_UNAUTHORIZED
           /\ ~last'.success
           /\ last'.calls = <<>>
           /\ gadgets' = gadgets]_vars

C8_Witness ==
    /\ last.route \in GadgetRoutes
    /\ last.token.form = "jwt" /\ last.token.signed /\ last.token.exp <= clock
    /\ last.status = HTTP_UNAUTHORIZED
    /\ last.message = "Authentication failed. Token has expired."
    /\ gadgets # <<>>

\* the gate has rejected the request after jwt.verify threw
VerificationFailed(l) ==
    /\ l # NoResponse
    /\ l.stages = <<"auth">>
    /\ l.token.form # "none"
    /\ l.message # "Invalid JWT Token structure"

\* C9 (as stated): each verification failure of the gate is answered 401.
C9_VerificationFailuresAre401 ==
    VerificationFailed(last) => last.status = HTTP_UNAUTHORIZED

\* C9 (amended): the gate answers 401 to a malformed or wrongly signed token and to an
\* expired one, and 500 to any other error thrown by the verification (here a token that
\* is not valid yet).
C9_VerificationFailureStatus ==
    VerificationFailed(last)
        => IF NoneMalformedForgedOrExpired(last.token, clock)
           THEN last.status = HTTP_UNAUTHORIZED
           ELSE /\ last.status = HTTP_INTERNAL_SERVER_ERROR
                /\ last.message = "Authentication failed due to an unexpected server error."

C9_Witness ==
    /\ VerificationFailed(last)
    /\ last.token.nbf # NULL
    /\ last.status = HTTP_INTERNAL_SERVER_ERROR

NoTokenProvided(l) ==
    l.status = HTTP_UNAUTHORIZED /\ l.message = "No token provided. Please log in"

\* C10 (as stated): the gate runs on every gadget route and on none of signup, signin and
\* logout: such a request without a token is never rejected for lack of a token.
C10_GateOnGadgetRoutesOnly ==
    (last # NoResponse /\ last.token = NoCookie)
        => (NoTokenProvided(last) <=> last.route \in GadgetRoutes)

\* C10 (amended): the gate runs first on every gadget route and on logout, where a
\* request without a token is answered 401 for lack of a token, and it does not run on
\* signup and signin, which are never rejected for lack of a token.
C10_GateOnGadgetRoutesAndLogout ==
    last # NoResponse
        => /\ (last.stages[1] = "auth") <=> (last.route \in GadgetRoutes \cup {"logout"})
           /\ last.token = NoCookie
               => (NoTokenProvided(last) <=> last.route \in GadgetRoutes \cup {"logout"})

C10_Witness ==
    /\ last.route = "logout"
    /\ last.token = NoCookie
    /\ NoTokenProvided(last)
    /\ users # <<>>

\* the request that last' holds was answered by the controller of the given route
ServedBy(l, route) == l # NoResponse /\ l.route = route /\ "service" \in Range(l.stages)

\* the email and the password of the body of an auth request
EmailOf(l) == TheValue(l.body.email)
PasswordOf(l) == TheValue(l.body.password)

\* the store holds a user registered with this email and this password
Registered(store, email, password) ==
    \E id \in findByEmail(store, email), salt \in Salts :
        store[id].password = hashPassword(password, salt)

\* C11: a signup with an email no user has answers 201 and adds exactly one row for it;
\* a signup with an email a user already has (as after a first signup) answers 409 and
\* leaves the users table, with its one row for that email, as it was.
C11_SignUpTwice ==
    [][ServedBy(last', "signup")
        => IF findByEmail(users, EmailOf(last')) = {}
           THEN /\ last'.status = HTTP_CREATED
                /\ Cardinality(findByEmail(users', EmailOf(last'))) = 1
                /\ Cardinality(DOMAIN users') = Cardinality(DOMAIN users) + 1
                /\ \A id \in DOMAIN users : users'[id] = users[id]
           ELSE /\ last'.status = HTTP_CONFLICT
                /\ users' = users
                /\ Cardinality(findByEmail(users', EmailOf(last'))) = 1]_vars

C11_Witness ==
    /\ ServedBy(last, "signup")
    /\ last.status = HTTP_CONFLICT
    /\ Cardinality(findByEmail(users, EmailOf(last))) = 1

\* C12: a signin with the email and the password a user registered with answers 200 with
\* a token that the authentication gate accepts and reads as the id of that user.
C12_SignInAfterSignUp ==
    [][(ServedBy(last', "signin") /\ Registered(users, EmailOf(last'), PasswordOf(last')))
        => /\ last'.status = HTTP_OK
           /\ Cardinality(last'.data) = 1
           /\ LET token == TheValue(last'.data).token
                  gate == verifyJwtToken(token, clock) IN
                /\ gate.pass
                /\ gate.userId = findByEmail(users, EmailOf(last'))
                /\ TheValue(last'.data).user.id \in findByEmail(users, EmailOf(last'))]_vars

C12_Witness ==
    /\ ServedBy(last, "signin")
    /\ last.success
    /\ Registered(users, EmailOf(last), PasswordOf(last))
    /\ verifyJwtToken(cookie, clock).userId = findByEmail(users, EmailOf(last))

\* C13: a signin with an email no user has answers 404, and one with the email of a user
\* and a password other than the one registered answers 401; neither returns a token nor
\* sets the cookie.
C13_SignInFailures ==
    [][(ServedBy(last', "signin") /\ ~Registered(users, EmailOf(last'), PasswordOf(last')))
        => /\ last'.status = IF findByEmail(users, EmailOf(last')) = {}
                             THEN HTTP_NOT_FOUND ELSE HTTP_UNAUTHORIZED
           /\ last'.data = {}
           /\ cookie' = cookie
           /\ users' = users]_vars

C13_Witness ==
    /\ ServedBy(last, "signin")
    /\ last.status = HTTP_UNAUTHORIZED
    /\ findByEmail(users, EmailOf(last)) # {}
    /\ cookie = NoCookie

\* the user values in the response of a signup or a signin
UserValues(l) == IF l.route = "signup" THEN l.data ELSE {d.user : d \in l.data}

\* the strings a response carries besides its user values
ResponseTexts(l) ==
    {l.message} \cup UNION {{e.details[i].message : i \in DOMAIN e.details} : e \in l.error}

RawErrorHandled(l) == l # NoResponse /\ l.stages = <<"json">>

\* C17: when an error that is no AppError reaches the global error handler, the response
\* has status 500 and the generic message, and its body carries no part of the error.
C17_RawErrorHidden ==
    RawErrorHandled(last)
        => /\ last.status = HTTP_INTERNAL_SERVER_ERROR
           /\ last.message = "An unexpected internal server error occurred. Please try again later."
           /\ last.data = {}
           /\ last.error = NULL

\* C15: a successful signin puts the session token in the cookie and in no field of the
\* response body; a successful logout clears the cookie.
C15_TokenOnlyInCookie ==
    [][/\ (ServedBy(last', "signin") /\ last'.success)
            => /\ cookie' # NoCookie
               /\ \A d \in last'.data : \A k \in DOMAIN d : d[k] # cookie'
       /\ (ServedBy(last', "logout") /\ last'.success) => cookie' = NoCookie]_vars

\* the response is the error of the given status and message
Answers(l, status, message) == ~l.success /\ l.status = status /\ l.message = message

\* the operational error an operation raises for the request in l, in the state before
\* it: <<status, message>>, or <<>> when it raises none
OperationalError(l) ==
    CASE l.route = "signup" /\ findByEmail(users, EmailOf(l)) # {}
            -> <<HTTP_CONFLICT,
                 "User with the email address already exists. Please use a different email or sign in">>
      [] l.route = "signin" /\ findByEmail(users, EmailOf(l)) = {}
            -> <<HTTP_NOT_FOUND,
                 "User with this email address does not exists. Please use a different email or sign up">>
      [] l.route = "signin" /\ ~Registered(users, EmailOf(l), PasswordOf(l))
            -> <<HTTP_UNAUTHORIZED, "Invalid Credentials">>
      [] l.route \in {"decommission", "selfDestruct"} /\ l.id \notin DOMAIN gadgets
            -> <<HTTP_NOT_FOUND, "Gadget not found">>
      [] l.route = "decommission" /\ gadgets[l.id].status = "Decommissioned"
            -> <<HTTP_BAD_REQUEST, "Gadget is already decommissioned">>
      [] l.route = "selfDestruct" /\ gadgets[l.id].status = "Destroyed"
            -> <<HTTP_BAD_REQUEST, "Gadget is already destroyed">>
      [] OTHER -> <<>>

\* the fixed message of each operation for a failure that is no operational error
GenericMessage(route) ==
    CASE route = "create" -> "An unexpected error occurred while creating the gadget."
      [] route = "update" -> "An unexpected error occurred while updating the gadget."
      [] route = "decommission" -> "An unexpected error occurred while decommissioning the gadget."
      [] route = "selfDestruct" -> "An unexpected error occurred while self destructing the gadget."
      [] route = "signup"
            -> "An unexpected server error occurred during signup. Please try again later."
      [] route = "signin"
            -> "An unexpected server error occurred during sign-in. Please try again later."
      [] OTHER -> ""

RejectedByValidation(l) ==
    l # NoResponse /\ l.stages # <<>> /\ l.stages[Len(l.stages)] = "validate"

\* the fields of the validated region of the request in l that break a constraint of the
\* schema of its route
ViolatedFields(l) ==
    CASE l.route \in {"signup", "signin"}
            -> {f \in {"email"} : l.body.email = NULL \/ EmailOf(l) \notin Emails}
                   \cup {f \in {"password"} :
                            \/ l.body.password = NULL
                            \/ PasswordLength[PasswordOf(l)] < MinPasswordLen}
      [] l.route = "create"
            -> {f \in {"name"} :
                   \/ l.body.name = NULL
                   \/ NameLength[TheValue(l.body.name)] \notin 1..MaxNameLen}
      [] l.route = "list"
            -> {f \in {"status"} :
                   l.body.status # NULL /\ TheValue(l.body.status) \notin GadgetStatus}
      [] l.route \in {"update", "decommission", "selfDestruct"}
            -> {f \in {"id"} : ~IsUuid(l.id)}
      [] OTHER -> {}

C19_UpdateBodyValidated ==
    ServedBy(last, "update")
        => /\ IsUuid(last.id)
           /\ last.body.name # NULL => NameLength[TheValue(last.body.name)] <= MaxNameLen
           /\ last.body.status # NULL => TheValue(last.body.status) \in GadgetStatus

\* the stages of a gadget route in the order the router registers them
GadgetStages == <<"auth", "validate", "service">>

IsPrefix(seq, of) == Len(seq) <= Len(of) /\ seq = SubSeq(of, 1, Len(seq))

\* C20 (as stated): on a gadget route the validation runs first, then the gate, then the
\* service: a request that breaks its schema is rejected by the validation, whatever its
\* token.
C20_ValidationBeforeGate ==
    (last # NoResponse /\ last.route \in GadgetRoutes)
        => /\ IsPrefix(last.stages, <<"validate", "auth", "service">>)
           /\ ViolatedFields(last) # {} => RejectedByValidation(last)

\* C20 (amended): on a gadget route the gate runs first, then the validation, then the
\* service: a request whose token the gate does not accept is rejected by the gate even
\* when it breaks its schema, the validation sees only requests the gate has passed, and
\* the service only requests that both have passed.
C20_GateBeforeValidation ==
    (last # NoResponse /\ last.route \in GadgetRoutes)
        => /\ last.stages # <<>> /\ IsPrefix(last.stages, GadgetStages)
           /\ ~verifyJwtToken(last.token, clock).pass
               => /\ last.stages = <<"auth">>
                  /\ last.status \in {HTTP_UNAUTHORIZED, HTTP_INTERNAL_SERVER_ERROR}
                  /\ last.message # "Validation Failed"
           /\ Len(last.stages) > 1 => verifyJwtToken(last.token, clock).pass
           /\ Len(last.stages) = 2 => ViolatedFields(last) # {} /\ ~last.success
           /\ Len(last.stages) > 2 => ViolatedFields(last) = {}

C20_Witness ==
    /\ last.route = "update"
    /\ ~verifyJwtToken(last.token, clock).pass
    /\ ViolatedFields(last) = {"id"}
    /\ last.stages = <<"auth">>
    /\ last.status = HTTP_UNAUTHORIZED

\* the columns of a gadget that a request can name
GadgetColumns == {"name", "status", "codename", "decommissionedAt"}

\* C21: a successful update writes, on the gadget of its id, exactly the fields of its
\* body: each of them has the value sent, every other field of that gadget has the value
\* it had, every other gadget is as it was, and the gadget returned is the stored one.
C21_UpdateWritesNamedFieldsOnly ==
    [][(ServedBy(last', "update") /\ last'.success)
        => /\ last'.id \in DOMAIN gadgets
           /\ DOMAIN gadgets' = DOMAIN gadgets
           /\ \A other \in DOMAIN gadgets \ {last'.id} : gadgets'[other] = gadgets[other]
           /\ \A column \in GadgetColumns :
                 gadgets'[last'.id][column] =
                     IF last'.body[column] = NULL THEN gadgets[last'.id][column]
                     ELSE TheValue(last'.body[column])
           /\ last'.data = {gadgets'[last'.id]}]_vars

C21_Witness ==
    /\ ServedBy(last, "update")
    /\ last.success
    /\ last.body.name # NULL
    /\ Cardinality(DOMAIN gadgets) = MaxGadgets
    /\ gadgets[last.id].name # TheValue(last.before).name
    /\ gadgets[last.id].status = "Deployed"
    /\ TheValue(last.before).status = "Deployed"

Stored(d) == Row(d.name, d.codename, d.status, d.decommissionedAt)

\* the stored gadgets that a list with this filter asks for
Listed(store, status) ==
    {id \in DOMAIN store : status = NULL \/ store[id].status = TheValue(status)}

\* C24: a list answers 200 with exactly the stored gadgets whose status is the filter, or
\* all of them without a filter, each with one added field missionSuccessProbability made
\* of its codename and a percentage; it writes nothing: the store is as it was and no
\* stored gadget has the added field.
C24_ListReturnsFilteredGadgets ==
    [][ServedBy(last', "list")
        => /\ last'.status = HTTP_OK
           /\ {Stored(d) : d \in last'.data}
                 = {gadgets[id] : id \in Listed(gadgets, last'.body.status)}
           /\ Cardinality(last'.data) = Cardinality(Listed(gadgets, last'.body.status))
           /\ \A d \in last'.data :
                 /\ DOMAIN d = GadgetColumns \cup {"missionSuccessProbability"}
                 /\ d.missionSuccessProbability[1] = d.codename
                 /\ d.missionSuccessProbability[2] \in 0..100
           /\ Writes(last'.calls) = <<>>
           /\ gadgets' = gadgets
           /\ \A id \in DOMAIN gadgets' : DOMAIN gadgets'[id] = GadgetColumns]_vars

C24_Witness ==
    /\ ServedBy(last, "list")
    /\ last.body.status = Some("Destroyed")
    /\ Cardinality(last.data) = 1
    /\ Cardinality(DOMAIN gadgets) = MaxGadgets

\* C28: a decommission or a selfDestruct that fails with 404 or 400 makes no repository
\* write and leaves every stored gadget, in all its fields, as it was.
C28_FailedTransitionWritesNothing ==
    [][(last' # NoResponse /\ last'.route \in {"decommission", "selfDestruct"}
            /\ last'.status \in {HTTP_NOT_FOUND, HTTP_BAD_REQUEST})
        => /\ ~last'.success
           /\ Writes(last'.calls) = <<>>
           /\ gadgets' = gadgets]_vars

C28_Witness ==
    /\ ServedBy(last, "decommission")
    /\ last.status = HTTP_NOT_FOUND
    /\ last.calls = <<"findById">>
    /\ gadgets # <<>>

\* the codename that the create in l has generated is that of a stored gadget
CodenameCollides(l, store) ==
    /\ ServedBy(l, "create")
    /\ l.drawn # NULL
    /\ CodenameTaken(store, TheValue(l.drawn), {})

\* C23: a create whose generated codename is that of a stored gadget fails with 500 and
\* the fixed message of create; no gadget is added and every stored gadget, the one with
\* that codename among them, is as it was.
C23_CodenameCollisionFails ==
    [][CodenameCollides(last', gadgets)
        => /\ Answers(last', HTTP_INTERNAL_SERVER_ERROR, GenericMessage("create"))
           /\ last'.data = {}
           /\ gadgets' = gadgets]_vars

C23_Witness ==
    /\ CodenameCollides(last, gadgets)
    /\ last.status = HTTP_INTERNAL_SERVER_ERROR
    /\ Cardinality(DOMAIN gadgets) = 1
    /\ last.body.name # NULL
    /\ \A id \in DOMAIN gadgets : gadgets[id].name # TheValue(last.body.name)

\* a request to a gadget route presents the kept copy of a session token, before the
\* token's expiry, when the browser's cookie has been cleared: the copy was taken from the
\* cookie, and only a sign-out clears the cookie before the token expires
KeptTokenAfterSignOut(l, token, jar, now) ==
    /\ l # NoResponse
    /\ l.route \in GadgetRoutes
    /\ token # NoCookie
    /\ l.token = token
    /\ jar = NoCookie
    /\ now < token.exp

\* C29: a successful sign-out writes nothing on the server and clears the browser's
\* cookie; the token it was made with, presented again on a gadget route before its
\* expiry, still passes the gate.
C29_SignOutKeepsTokenValid ==
    [][/\ (ServedBy(last', "logout") /\ last'.success)
            => /\ users' = users /\ gadgets' = gadgets /\ clock' = clock
               /\ last'.calls = <<>>
               /\ cookie' = NoCookie
               /\ verifyJwtToken(last'.token, clock').pass
       /\ KeptTokenAfterSignOut(last', kept, cookie, clock)
            => /\ Len(last'.stages) > 1
               /\ last'.stages[1] = "auth"
               /\ last'.status # HTTP_UNAUTHORIZED]_vars

C29_Witness ==
    /\ KeptTokenAfterSignOut(last, kept, cookie, clock)
    /\ ServedBy(last, "list")
    /\ last.success
    /\ users # <<>>

\* in the state p of the connections, the requests of o and s are both answered, are the
\* same call, and ran at once: that of s was in flight when that of o was answered, and
\* was answered after it
Overlapped(p, o, s, route) ==
    /\ p[o].pc = "done" /\ p[s].pc = "done"
    /\ p[o].route = route /\ p[s].route = route
    /\ p[o].others[s] \in {"read", "write"}
    /\ p[s].others[o] = "done"

\* the step is the write of the request of connection s, a call of the given route
WriteOf(s, route) ==
    pending[s].route = route /\ pending[s].pc = "write" /\ pending'[s].pc = "done"

\* C25: the write of an update on a stored gadget, whatever other requests are in flight,
\* is never rejected: it answers 200, gives each field of its body the value sent and
\* leaves the other fields as the write before it left them; so after two updates of one
\* gadget that ran at once, each field that either has sent holds the value of the one
\* that wrote last among those that sent it.
C25_LastWriteWins ==
    [][\A s \in Slots :
          /\ (WriteOf(s, "update") /\ pending[s].id \in DOMAIN gadgets)
                => /\ pending'[s].status = HTTP_OK
                   /\ \A column \in GadgetColumns :
                         gadgets'[pending[s].id][column] =
                             IF pending[s].body[column] = NULL
                             THEN gadgets[pending[s].id][column]
                             ELSE TheValue(pending[s].body[column])
          /\ \A o \in Slots \ {s} :
                (/\ Overlapped(pending', o, s, "update")
                 /\ pending'[o].id = pending'[s].id
                 /\ pending'[s].id \in DOMAIN gadgets')
                    => /\ pending'[o].status = HTTP_OK /\ pending'[s].status = HTTP_OK
                       /\ \A column \in GadgetColumns :
                             LET stored == gadgets'[pending'[s].id][column]
                                 first == pending'[o].body[column]
                                 second == pending'[s].body[column] IN
                             /\ second # NULL => stored = TheValue(second)
                             /\ (second = NULL /\ first # NULL) => stored = TheValue(first)]_vars

C25_Witness ==
    \E o, s \in Slots :
        /\ Overlapped(pending, o, s, "update")
        /\ pending[o].id = pending[s].id
        /\ pending[o].others[s] = "write"
        /\ pending[o].body.name = Some("Grappling Hook")
        /\ pending[s].body.status = Some("Deployed")
        /\ gadgets[pending[s].id].name = "Grappling Hook"
        /\ gadgets[pending[s].id].status = "Deployed"

\* the status that a decommission, or a selfDestruct, gives and refuses to give twice
TargetStatus(route) == IF route = "decommission" THEN "Decommissioned" ELSE "Destroyed"

\* the request of o, the same call on the same gadget as that of s, was answered 200
\* while that of s was in flight
SucceededMeanwhile(p, o, s) ==
    /\ p[o].pc = "done" /\ p[o].status = HTTP_OK
    /\ p[o].route = p[s].route /\ p[o].id = p[s].id
    /\ p[o].others[s] \in {"read", "write"}

\* C26: whatever the interleaving of two decommissions, or of two selfDestructs, of one
\* gadget, the write of the one is never applied to the gadget once the other has made it
\* Decommissioned, or Destroyed, and one of the two at most is answered 200.
C26_GuardsHoldUnderRace ==
    [][\A s \in Slots, o \in Slots, route \in {"decommission", "selfDestruct"} :
          /\ (WriteOf(s, route) /\ SucceededMeanwhile(pending, o, s))
                => gadgets[pending[s].id].status # TargetStatus(route)
          /\ (Overlapped(pending', o, s, route) /\ pending'[o].id = pending'[s].id)
                => ~(pending'[o].status = HTTP_OK /\ pending'[s].status = HTTP_OK)]_vars

\* C27: whatever the interleaving, no two stored users have the same email, and of two
\* signups with one email that ran at once, one at most is answered 201 and the other
\* one is answered 409.
C27_SignUpRace ==
    /\ \A a, b \in DOMAIN users : users[a].email = users[b].email => a = b
    /\ \A o, s \in Slots :
          (Overlapped(pending, o, s, "signup") /\ pending[o].body.email = pending[s].body.email)
              => /\ pending[o].status \in {HTTP_CREATED, HTTP_CONFLICT}
                 /\ pending[s].status = HTTP_CONFLICT

\* a request is in the chain of its route on connection s
InChain(s) == pending[s] # NoRequest /\ pending[s].pc # "done"

\* the request on connection s has its response
Answered(s) == pending[s].pc = "done" /\ pending[s].sent = 1

\* C30: every request that enters the chain of its route gets exactly one response: no
\* stage writes a second one, a request is over exactly when one has been written, and
\* every request that has entered is answered in the end, given that every call of a
\* repository or of a crypto helper returns or throws.
C30_ExactlyOneResponse ==
    /\ [](\A s \in Slots :
             /\ pending[s].sent \in {0, 1}
             /\ (pending[s].pc = "done") <=> (pending[s].sent = 1)
             /\ pending[s].pc \in {"none", "chain", "controller", "errorHandler", "done"})
    /\ \A s \in Slots : InChain(s) ~> Answered(s)

C30_Witness ==
    \E s \in Slots :
        /\ Answered(s)
        /\ pending[s].route = "decommission"
        /\ pending[s].status = HTTP_BAD_REQUEST
        /\ pending[s].message = "Gadget is already decommissioned"
        /\ pending[s].err.isAppError

====
